---- MODULE Spec2Model ----
(***************************************************************************)
(* Model of the MagicBricks scraper (src/app.py): the page fetcher, the    *)
(* listing extractor parse_page, the spreadsheet exporter to_excel and the *)
(* Streamlit script with its "Get Data" and "Download" blocks.             *)
(*                                                                         *)
(* Python strings are sequences of one-character strings, so that find,    *)
(* split, strip and slicing are computed as Python computes them.  A dict  *)
(* is a sequence of <<key, value>> pairs in insertion order, which is what *)
(* decides the column order of the DataFrame built from it.                *)
(***************************************************************************)
EXTENDS Integers, Sequences, FiniteSets, TLC

VARIABLES
    session_state,  \* st.session_state: the 'data' slot
    log,            \* lines appended to logs/scraper.log
    screen,         \* what the last script run rendered
    last,           \* inputs of the last script run (button, url, response)
    requests,       \* number of HTTP GET requests issued so far
    cycles,         \* number of script runs started so far
    run,            \* the script thread: idle, or waiting in requests.get
    page,           \* markup handed to parse_page
    parsed          \* outcome of the last parse_page call

vars == <<session_state, log, screen, last, requests, cycles, run, page, parsed>>

----------------------------------------------------------------------------
(* Bounds *)

MaxCycles == 3

MaxBlocks == 2

----------------------------------------------------------------------------
(* String literals of the source and the title / text inputs *)

TitleAndheri ==
    <<"2", " ", "B", "H", "K", " ", "F", "l", "a", "t", " ", "f", "o", "r", " ", "S", "a", "l", "e", " ", "i", "n", " ", "A", "n", "d", "h", "e", "r", "i", " ", "W", "e", "s", "t">>

TitleTwoIn ==
    <<"3", " ", "B", "H", "K", " ", "V", "i", "l", "l", "a", " ", "f", "o", "r", " ", "R", "e", "n", "t", " ", "i", "n", " ", "T", "o", "w", "e", "r", " ", "i", "n", " ", "G", "o", "a">>

TitleOverlapIn ==
    <<"S", "h", "o", "p", " ", "i", "n", " ", "i", "n", " ", "G", "o", "a">>

TitleNoIn ==
    <<"4", " ", "B", "H", "K", " ", "H", "o", "u", "s", "e", " ", "f", "o", "r", " ", "S", "a", "l", "e">>

TitleSentinelLoc ==
    <<"P", "l", "o", "t", " ", "i", "n", " ", "L", "o", "c", "a", "t", "i", "o", "n", " ", "N", "o", "t", " ", "A", "v", "a", "i", "l", "a", "b", "l", "e">>

TitleNoBHK ==
    <<"S", "t", "u", "d", "i", "o", " ", "i", "n", " ", "N", "o", "i", "d", "a">>

TitleLeadingSpace ==
    <<" ", "2", " ", "B", "H", "K", " ", "F", "l", "a", "t", " ", "f", "o", "r", " ", "S", "a", "l", "e", " ", "i", "n", " ", "P", "u", "n", "e">>

TitleForFirst ==
    <<"P", "l", "o", "t", " ", "f", "o", "r", " ", "2", " ", "B", "H", "K", " ", "i", "n", " ", "P", "u", "n", "e">>

TitleNothingBetween ==
    <<"1", " ", "B", "H", "K", " ", "f", "o", "r", " ", "R", "e", "n", "t", " ", "i", "n", " ", "G", "o", "a">>

SEP_IN ==
    <<" ", "i", "n", " ">>

BHK ==
    <<"B", "H", "K">>

FOR ==
    <<"f", "o", "r">>

SPACE ==
    <<" ">>

LocationNA ==
    <<"L", "o", "c", "a", "t", "i", "o", "n", " ", "N", "o", "t", " ", "A", "v", "a", "i", "l", "a", "b", "l", "e">>

PropertyTypeNA ==
    <<"P", "r", "o", "p", "e", "r", "t", "y", " ", "T", "y", "p", "e", " ", "N", "o", "t", " ", "A", "v", "a", "i", "l", "a", "b", "l", "e">>

PriceNA ==
    <<"P", "r", "i", "c", "e", " ", "N", "o", "t", " ", "A", "v", "a", "i", "l", "a", "b", "l", "e">>

SizeNA ==
    <<"S", "i", "z", "e", " ", "N", "o", "t", " ", "A", "v", "a", "i", "l", "a", "b", "l", "e">>

BedroomsNA ==
    <<"B", "e", "d", "r", "o", "o", "m", "s", " ", "N", "o", "t", " ", "A", "v", "a", "i", "l", "a", "b", "l", "e">>

SoldByNA ==
    <<"S", "o", "l", "d", " ", "B", "y", " ", "N", "o", "t", " ", "A", "v", "a", "i", "l", "a", "b", "l", "e">>

TextPrice ==
    <<" ", "\r", "8", "5", " ", "L", "a", "c", "\r", "\n">>

TextSize ==
    <<"6", "5", "0", " ", "s", "q", "f", "t">>

TextSizePadded ==
    <<"\\xa0", "6", "5", "0", " ", "s", "q", "f", "t", "\\x0b">>

TextSeller ==
    <<"O", "w", "n", "e", "r">>

TextBlank ==
    <<" ", "\t", "\f">>

FlatSale ==
    <<"F", "l", "a", "t", " ", "S", "a", "l", "e">>

Flat ==
    <<"F", "l", "a", "t">>

AndheriWest ==
    <<"A", "n", "d", "h", "e", "r", "i", " ", "W", "e", "s", "t">>

Two ==
    <<"2">>

----------------------------------------------------------------------------
(* Python str operations *)

\* the characters str.strip() removes (those for which str.isspace() holds);
\* a character TLA+ cannot write is named by its Python escape
Whitespace ==
    {" ", "\t", "\n", "\r", "\f", "\\x0b", "\\x1c", "\\x1d", "\\x1e", "\\x1f",
     "\\x85", "\\xa0", "\\u1680", "\\u2000", "\\u2001", "\\u2002", "\\u2003",
     "\\u2004", "\\u2005", "\\u2006", "\\u2007", "\\u2008", "\\u2009", "\\u200a",
     "\\u2028", "\\u2029", "\\u202f", "\\u205f", "\\u3000"}

MinOf(S) == CHOOSE x \in S : \A y \in S : x <= y

\* s.find(sub): 0-based index of the first occurrence, -1 if none
find(s, sub) ==
    LET idx == {i \in 0..(Len(s) - Len(sub)) : SubSeq(s, i + 1, i + Len(sub)) = sub}
    IN  IF idx = {} THEN -1 ELSE MinOf(idx)

\* sub in s
contains(s, sub) == find(s, sub) # -1

\* s[a:b] for non-negative a, b
slice(s, a, b) ==
    LET hi == IF b < Len(s) THEN b ELSE Len(s)
    IN  IF a >= hi THEN <<>> ELSE SubSeq(s, a + 1, hi)

\* s.split(sep): the pieces between the matches of sep, taken left to right
RECURSIVE split(_, _)
split(s, sep) ==
    LET i == find(s, sep)
    IN  IF i = -1
        THEN <<s>>
        ELSE <<slice(s, 0, i)>> \o split(slice(s, i + Len(sep), Len(s)), sep)

RECURSIVE lstrip(_)
lstrip(s) ==
    IF s # <<>> /\ Head(s) \in Whitespace THEN lstrip(Tail(s)) ELSE s

RECURSIVE rstrip(_)
rstrip(s) ==
    IF s # <<>> /\ s[Len(s)] \in Whitespace THEN rstrip(SubSeq(s, 1, Len(s) - 1)) ELSE s

\* strip() left out
strip_Missing(s) == s

\* s.strip()
strip(s) == rstrip(lstrip(s))

\* tag.get_text(strip=True) of an element holding one text node
get_text(tag) == strip(tag.text)

----------------------------------------------------------------------------
(* Logging *)

\* log_error(e): one ERROR line "An error occurred: {e}"
log_error(e) ==
    [level |-> "ERROR",
     message |-> [prefix |-> "An error occurred: ", what |-> e.what, detail |-> e.detail]]

Digit(d) == <<"0", "1", "2", "3", "4", "5", "6", "7", "8", "9">>[d + 1]

\* str(n) of a non-negative int, as an f-string formats a status code
RECURSIVE str_int(_)
str_int(n) ==
    IF n < 10 THEN <<Digit(n)>> ELSE Append(str_int(n \div 10), Digit(n % 10))

\* str(e) of the AttributeError raised by None.get_text
NoneTypeHasNoGetText ==
    <<"'", "N", "o", "n", "e", "T", "y", "p", "e", "'", " ", "o", "b", "j", "e", "c", "t", " ", "h", "a", "s", " ", "n", "o", " ", "a", "t", "t", "r", "i", "b", "u", "t", "e", " ", "'", "g", "e", "t", "_", "t", "e", "x", "t", "'">>

----------------------------------------------------------------------------
(* Page Fetcher *)

FetchHtmlReturn(is_none, text, logged) ==
    [raised |-> FALSE, is_none |-> is_none, text |-> text, logged |-> logged]

\* fetch_html that returns None for a status other than 200 without logging
fetch_html_NoLog(response) ==
    IF response.raised
    THEN [raised |-> TRUE, is_none |-> FALSE, text |-> <<>>, logged |-> <<>>]
    ELSE IF response.status_code = 200
    THEN FetchHtmlReturn(FALSE, response.text, <<>>)
    ELSE FetchHtmlReturn(TRUE, <<>>, <<>>)

\* fetch_html(url), given what requests.get does for the url: when it raises
\* (no handler in lines 18-27) the exception leaves fetch_html; else the body
\* for status 200, and None after logging the status code for any other
fetch_html(response) ==
    IF response.raised
    THEN [raised |-> TRUE, is_none |-> FALSE, text |-> <<>>, logged |-> <<>>]
    ELSE IF response.status_code = 200
    THEN FetchHtmlReturn(FALSE, response.text, <<>>)
    ELSE FetchHtmlReturn(TRUE, <<>>,
                         <<log_error([what |-> "Failed to fetch page: ",
                                      detail |-> str_int(response.status_code)])>>)

----------------------------------------------------------------------------
(* Listing Extractor *)

\* location taken as the piece after the first separator: split(" in ")[1]
Location_SecondPiece(property_title_text) ==
    IF contains(property_title_text, SEP_IN)
    THEN split(property_title_text, SEP_IN)[2]
    ELSE LocationNA

\* location (lines 40-42)
Location(property_title_text) ==
    IF contains(property_title_text, SEP_IN)
    THEN LET parts == split(property_title_text, SEP_IN) IN parts[Len(parts)]
    ELSE LocationNA

\* property_type (lines 45-49)
PropertyType(property_title_text) ==
    IF contains(property_title_text, BHK) /\ contains(property_title_text, FOR)
    THEN LET start_index == find(property_title_text, BHK) + 3
             end_index == find(property_title_text, FOR)
         IN  strip(slice(property_title_text, start_index, end_index))
    ELSE PropertyTypeNA

\* bedrooms (line 60)
Bedrooms(property_title_text) ==
    IF property_title_text # <<>>
    THEN split(property_title_text, SPACE)[1]
    ELSE BedroomsNA

\* price with no sentinel for a missing element
Price_NoSentinel(listing) ==
    IF listing.price.present THEN get_text(listing.price) ELSE <<>>

\* price (lines 52-53)
Price(listing) ==
    IF listing.price.present THEN get_text(listing.price) ELSE PriceNA

\* sold_by (lines 63-64)
SoldBy(listing) ==
    IF listing.sold_by.present THEN get_text(listing.sold_by) ELSE SoldByNA

\* size (lines 56-57), when the nested value element is there or the entry is not
Size(listing) ==
    IF listing.size.present THEN get_text(listing.size) ELSE SizeNA

\* the dict appended at lines 67-74, keys in insertion order
PropertyDict(listing, property_title_text) ==
    << <<"location", Location(property_title_text)>>,
       <<"price", Price(listing)>>,
       <<"property_type", PropertyType(property_title_text)>>,
       <<"size", Size(listing)>>,
       <<"bedrooms", Bedrooms(property_title_text)>>,
       <<"sold_by", SoldBy(listing)>> >>

\* the body of the try block for one listing (lines 39-74):
\*   "TypeError"      the h2 has no title attribute, so get('title') is None and
\*                    `" in " in None` raises at line 42
\*   "AttributeError" the carpet-area entry has no value element, so
\*                    None.get_text raises at line 57
\*   "ok"             a dict is appended
ListingBody(listing) ==
    LET property_title_text ==
            IF listing.h2.present THEN listing.h2.title ELSE <<>>
    IN  IF listing.h2.present /\ ~listing.h2.has_title
        THEN [outcome |-> "TypeError", dict |-> <<>>]
        ELSE IF listing.size.present /\ ~listing.size.has_value
        THEN [outcome |-> "AttributeError", dict |-> <<>>]
        ELSE [outcome |-> "ok", dict |-> PropertyDict(listing, property_title_text)]

\* soup.find_all('div', class_='mb-srp__list') (line 35)
find_all_listings(html) == SelectSeq(html, LAMBDA el : el.listing)

\* the for loop of parse_page: an AttributeError is caught and logged (lines
\* 75-76), any other exception leaves the function
RECURSIVE ParseLoop(_, _, _, _)
ParseLoop(listings, i, properties, logged) ==
    IF i > Len(listings)
    THEN [raised |-> "none", properties |-> properties, logged |-> logged]
    ELSE LET r == ListingBody(listings[i])
         IN  CASE r.outcome = "ok" ->
                    ParseLoop(listings, i + 1, Append(properties, r.dict), logged)
               [] r.outcome = "AttributeError" ->
                    ParseLoop(listings, i + 1, properties,
                              Append(logged,
                                     log_error([what |-> "Failed to parse listing: ",
                                                detail |-> NoneTypeHasNoGetText])))
               [] OTHER ->
                    [raised |-> r.outcome, properties |-> <<>>, logged |-> logged]

\* parse_page(html)
parse_page(html) == ParseLoop(find_all_listings(html), 1, <<>>, <<>>)

----------------------------------------------------------------------------
(* Tabular Presenter and Spreadsheet Exporter *)

ValueOf(dict, key) ==
    LET i == CHOOSE j \in 1..Len(dict) : dict[j][1] = key IN dict[i][2]

\* pd.DataFrame(properties): columns in the key order of the dicts
pd_DataFrame(properties) ==
    LET columns == IF properties = <<>> THEN <<>>
                   ELSE [c \in 1..Len(properties[1]) |-> properties[1][c][1]]
    IN  [columns |-> columns,
         rows |-> [r \in 1..Len(properties) |->
                      [c \in 1..Len(columns) |-> ValueOf(properties[r], columns[c])]]]

RowLabel(r) ==
    CASE r = 1 -> <<"0">>
      [] r = 2 -> <<"1">>
      [] r = 3 -> <<"2">>
      [] OTHER -> <<"3">>

\* to_excel with pandas' default index=True: an index column comes first
to_excel_WithIndex(df) ==
    [sheet_name |-> "Properties",
     cells |-> <<(<<"">> \o df.columns)>>
               \o [r \in 1..Len(df.rows) |-> <<RowLabel(r)>> \o df.rows[r]]]

\* df.to_excel(writer, index=False, sheet_name='Properties') (lines 81-86):
\* a header row of the column names, then one row per record
to_excel(df) ==
    [sheet_name |-> "Properties",
     cells |-> <<df.columns>> \o df.rows]

----------------------------------------------------------------------------
(* Streamlit script: the "Get Data" block and the download block *)

MsgNoUrl == "Please enter a valid URL."

MsgFetchFailed == "Failed to retrieve the HTML content."

MsgNoProperties == "No properties found or parsed. Check selectors."

MsgTable == "### Scraped Property Data"

NoFrame == [columns |-> <<>>, rows |-> <<>>]

NoSheet == [sheet_name |-> "", cells |-> <<>>]

NotParsed == [ran |-> FALSE, raised |-> "none", properties |-> <<>>, logged |-> <<>>]

NoResponse == [raised |-> FALSE, status_code |-> 0, text |-> <<>>]

\* Streamlit stops a running script at its next st.* call when a widget event
\* has arrived meanwhile (the script is then run again for that event).  The
\* st.* calls of the script, as the places where a run can be stopped:
\*   "block"     the first st.* call of the "Get Data" block (line 151, 157,
\*               159 or 161)
\*   "table"     st.dataframe (line 152)
\*   "download"  st.download_button (line 167)
\*   "none"      the run is not stopped
StopPoints == {"none", "block", "table", "download"}

\* outcome of the "Get Data" block on a branch that only shows a message
Shown(ss, message, logged, requested, markup, result, stop) ==
    [session_state |-> ss,
     message |-> IF stop = "block" THEN "" ELSE message,
     table |-> NoFrame, logged |-> logged, requested |-> requested,
     exception |-> "none", stopped |-> (stop = "block"),
     page |-> markup, parsed |-> result]

\* outcome of the "Get Data" block when an exception leaves the script
Uncaught(ss, exception, logged, markup, result) ==
    [session_state |-> ss, message |-> "", table |-> NoFrame,
     logged |-> logged, requested |-> TRUE, exception |-> exception,
     stopped |-> FALSE, page |-> markup, parsed |-> result]

\* outcome of the branch of lines 150-155: heading, table, then the slot
Stored(ss, properties, logged, markup, result, stop) ==
    LET df == pd_DataFrame(properties)
        cut == stop \in {"block", "table"}
    IN  [session_state |-> IF cut THEN ss ELSE [has_data |-> TRUE, data |-> df],
         message |-> IF stop = "block" THEN "" ELSE MsgTable,
         table |-> IF cut THEN NoFrame ELSE df,
         logged |-> logged, requested |-> TRUE, exception |-> "none",
         stopped |-> cut, page |-> markup, parsed |-> result]

\* the block without the `if properties:` test: an empty result is stored too
GetDataBlock_StoresEmpty(url, response, ss, stop) ==
    IF url = ""
    THEN Shown(ss, MsgNoUrl, <<>>, FALSE, <<>>, NotParsed, stop)
    ELSE LET html == fetch_html(response)
         IN  IF html.raised
             THEN Uncaught(ss, "RequestException", <<>>, <<>>, NotParsed)
             ELSE IF html.is_none \/ html.text = <<>>
             THEN Shown(ss, MsgFetchFailed, html.logged, TRUE, <<>>, NotParsed, stop)
             ELSE LET r == parse_page(html.text)
                      result == [ran |-> TRUE, raised |-> r.raised,
                                 properties |-> r.properties, logged |-> r.logged]
                  IN  IF r.raised # "none"
                      THEN Uncaught(ss, r.raised, r.logged, html.text, result)
                      ELSE Stored(ss, r.properties, r.logged, html.text, result, stop)

\* the block under `if st.button("Get Data"):` (lines 144-161), run with the
\* url of the text input and what requests.get does for it
GetDataBlock(url, response, ss, stop) ==
    IF url = ""
    THEN Shown(ss, MsgNoUrl, <<>>, FALSE, <<>>, NotParsed, stop)
    ELSE LET html == fetch_html(response)
         IN  IF html.raised
             THEN Uncaught(ss, "RequestException", <<>>, <<>>, NotParsed)
             ELSE IF html.is_none \/ html.text = <<>>
             THEN Shown(ss, MsgFetchFailed, html.logged, TRUE, <<>>, NotParsed, stop)
             ELSE LET r == parse_page(html.text)
                      result == [ran |-> TRUE, raised |-> r.raised,
                                 properties |-> r.properties, logged |-> r.logged]
                  IN  IF r.raised # "none"
                      THEN Uncaught(ss, r.raised, r.logged, html.text, result)
                      ELSE IF r.properties # <<>>
                      THEN Stored(ss, r.properties, r.logged, html.text, result, stop)
                      ELSE Shown(ss, MsgNoProperties, r.logged, TRUE, html.text,
                                 result, stop)

\* the block with "Get Data" not pressed: line 144 is false
NotPressed(ss) == Shown(ss, "", <<>>, FALSE, <<>>, NotParsed, "none")

\* the download block (lines 164-172): the button is offered when the slot
\* holds a table, with the sheet built from it
DownloadBlock(ss, stop) ==
    LET offered == ss.has_data /\ stop # "download"
    IN  [offered |-> offered,
         data |-> IF offered THEN to_excel(ss.data) ELSE NoSheet,
         file_name |-> IF offered THEN "properties_data.xlsx" ELSE ""]

\* what one script run leaves on the screen; an uncaught exception or a stop
\* inside the "Get Data" block ends the script before the download block
Render(out, stop) ==
    LET d == IF out.exception = "none" /\ ~out.stopped
             THEN DownloadBlock(out.session_state, stop)
             ELSE DownloadBlock([has_data |-> FALSE, data |-> NoFrame], stop)
    IN  [message |-> out.message, table |-> out.table, exception |-> out.exception,
         download_offered |-> d.offered, download |-> d.data, file_name |-> d.file_name]

\* the stop points a run with "Get Data" pressed can meet
StopsOfGetData(url, response, ss) ==
    LET out == GetDataBlock(url, response, ss, "none")
    IN  IF out.exception # "none" THEN {"none"}
        ELSE {"none", "block"}
             \cup (IF out.message = MsgTable THEN {"table"} ELSE {})
             \cup (IF out.session_state.has_data THEN {"download"} ELSE {})

\* the stop points a run with "Get Data" not pressed can meet
StopsOfRerun(ss) == IF ss.has_data THEN {"none", "download"} ELSE {"none"}

----------------------------------------------------------------------------
(* Inputs *)

Tag(text) == [present |-> TRUE, text |-> text]

NoTag == [present |-> FALSE, text |-> <<>>]

H2(title) == [present |-> TRUE, has_title |-> TRUE, title |-> title]

H2NoTitleAttr == [present |-> TRUE, has_title |-> FALSE, title |-> <<>>]

NoH2 == [present |-> FALSE, has_title |-> FALSE, title |-> <<>>]

CarpetArea(text) == [present |-> TRUE, has_value |-> TRUE, text |-> text]

CarpetAreaNoValue == [present |-> TRUE, has_value |-> FALSE, text |-> <<>>]

NoCarpetArea == [present |-> FALSE, has_value |-> FALSE, text |-> <<>>]

Listing(h2, price, size, sold_by) ==
    [listing |-> TRUE, h2 |-> h2, price |-> price, size |-> size, sold_by |-> sold_by]

\* markup that is no listing container
Other ==
    [listing |-> FALSE, h2 |-> NoH2, price |-> NoTag, size |-> NoCarpetArea, sold_by |-> NoTag]

Titles ==
    {TitleAndheri, TitleTwoIn, TitleOverlapIn, TitleNoIn, TitleSentinelLoc,
     TitleNoBHK, TitleLeadingSpace, TitleForFirst, TitleNothingBetween, <<>>}

H2s == {H2(t) : t \in Titles} \cup {H2NoTitleAttr, NoH2}

Prices == {Tag(TextPrice), Tag(TextBlank), NoTag}

Sizes == {CarpetArea(TextSize), CarpetArea(TextSizePadded), CarpetAreaNoValue, NoCarpetArea}

Sellers == {Tag(TextSeller), NoTag}

\* listing blocks for the extractor: every title shape with the other elements
\* there, every shape of each other element under one title, and a block
\* with no element at all
ParseElements ==
    {Listing(h, Tag(TextPrice), CarpetArea(TextSize), Tag(TextSeller)) : h \in H2s}
    \cup {Listing(H2(TitleAndheri), p, CarpetArea(TextSize), Tag(TextSeller)) : p \in Prices}
    \cup {Listing(H2(TitleAndheri), Tag(TextPrice), s, Tag(TextSeller)) : s \in Sizes}
    \cup {Listing(H2(TitleAndheri), Tag(TextPrice), CarpetArea(TextSize), b) : b \in Sellers}
    \cup {Listing(NoH2, NoTag, NoCarpetArea, NoTag), Other}

SeqsUpTo(S, n) == UNION {[1..k -> S] : k \in 0..n}

ParsePages == SeqsUpTo(ParseElements, MaxBlocks)

\* listing blocks and pages for the script runs
Complete == Listing(H2(TitleAndheri), Tag(TextPrice), CarpetArea(TextSize), Tag(TextSeller))

Bare == Listing(H2(TitleNoIn), NoTag, NoCarpetArea, NoTag)

NoValue == Listing(H2(TitleAndheri), Tag(TextPrice), CarpetAreaNoValue, Tag(TextSeller))

NoTitleAttr == Listing(H2NoTitleAttr, Tag(TextPrice), CarpetArea(TextSize), Tag(TextSeller))

ScriptPages ==
    {<<>>, <<Other>>, <<Complete>>, <<Bare, Complete>>, <<NoValue>>,
     <<Complete, NoValue>>, <<NoTitleAttr>>, <<Complete, NoTitleAttr>>}

Urls == {"", "https://www.magicbricks.com/property-for-sale"}

Statuses == {200, 301, 403, 404, 500, 503}

\* what requests.get can do for a url: bring a response with a status and a
\* body, or raise (no connection, a url without scheme, ...)
Responses ==
    {[raised |-> FALSE, status_code |-> 200, text |-> t] : t \in ScriptPages}
    \cup {[raised |-> FALSE, status_code |-> s, text |-> <<Other>>] :
        s \in Statuses \ {200}}
    \cup {[raised |-> TRUE, status_code |-> 0, text |-> <<>>]}

----------------------------------------------------------------------------
(* State machine of the script runs *)

Idle == [state |-> "idle", url |-> "", event |-> FALSE]

Init ==
    /\ session_state = [has_data |-> FALSE, data |-> NoFrame]
    /\ log = <<>>
    /\ screen = Render(NotPressed(session_state), "none")
    /\ last = [action |-> "start", url |-> "", response |-> NoResponse,
               stop |-> "none", file |-> NoSheet]
    /\ requests = 0
    /\ cycles = 0
    /\ run = Idle
    /\ page = <<>>
    /\ parsed = NotParsed

\* "Get Data" pressed with the url field empty: the run makes no request and
\* goes from line 141 to its end, or to the st.* call at which a new widget
\* event stops it
GetDataNoUrl(stop) ==
    /\ run.state = "idle"
    /\ cycles < MaxCycles
    /\ stop \in StopsOfGetData("", NoResponse, session_state)
    /\ \E out \in {GetDataBlock("", NoResponse, session_state, stop)} :
           /\ session_state' = out.session_state
           /\ log' = log \o out.logged
           /\ screen' = Render(out, stop)
           /\ page' = out.page
           /\ parsed' = out.parsed
    /\ last' = [action |-> "get_data", url |-> "", response |-> NoResponse,
                stop |-> stop, file |-> NoSheet]
    /\ cycles' = cycles + 1
    /\ UNCHANGED <<requests, run>>

\* "Get Data" pressed with a url: the run reaches requests.get (line 22,
\* called from line 146) and waits there, with no timeout; the page of the
\* run before stays on the screen
StartGetData(url) ==
    /\ run.state = "idle"
    /\ cycles < MaxCycles
    /\ url # ""
    /\ run' = [state |-> "waiting", url |-> url, event |-> FALSE]
    /\ requests' = requests + 1
    /\ last' = [action |-> "get_data", url |-> url, response |-> NoResponse,
                stop |-> "none", file |-> NoSheet]
    /\ cycles' = cycles + 1
    /\ page' = <<>>
    /\ parsed' = NotParsed
    /\ UNCHANGED <<session_state, log, screen>>

\* the download button still on the page pressed while the run waits: the
\* sheet that was offered is delivered, and the press is a widget event
DownloadWhileWaiting ==
    /\ run.state = "waiting"
    /\ screen.download_offered
    /\ last' = [last EXCEPT !.file = screen.download]
    /\ run' = [run EXCEPT !.event = TRUE]
    /\ UNCHANGED <<session_state, log, screen, requests, cycles, page, parsed>>

\* the url field edited while the run waits: a widget event
EditWhileWaiting ==
    /\ run.state = "waiting"
    /\ ~run.event
    /\ run' = [run EXCEPT !.event = TRUE]
    /\ UNCHANGED <<session_state, log, screen, last, requests, cycles, page, parsed>>

\* the stop points of the rest of a run: with a widget event pending it is
\* stopped at the first st.* call it reaches
StopsOfFinish(url, response, ss, event) ==
    LET stops == StopsOfGetData(url, response, ss)
    IN  IF ~event THEN stops
        ELSE IF "block" \in stops THEN {"block"} ELSE {"none"}

\* requests.get returns or raises: the rest of the run (lines 22-27, then
\* 147-172), to its end or to the st.* call at which it is stopped
FinishGetData(response) ==
    /\ run.state = "waiting"
    /\ \E stop \in StopsOfFinish(run.url, response, session_state, run.event) :
       \E out \in {GetDataBlock(run.url, response, session_state, stop)} :
           /\ session_state' = out.session_state
           /\ log' = log \o out.logged
           /\ screen' = Render(out, stop)
           /\ page' = out.page
           /\ parsed' = out.parsed
           /\ last' = [last EXCEPT !.response = response, !.stop = stop]
    /\ run' = Idle
    /\ UNCHANGED <<requests, cycles>>

\* a script run with no button pressed (the url field was edited): the
\* "Get Data" block is skipped and the download block runs
Rerun(stop) ==
    /\ run.state = "idle"
    /\ cycles < MaxCycles
    /\ stop \in StopsOfRerun(session_state)
    /\ last' = [action |-> "rerun", url |-> "", response |-> NoResponse,
                stop |-> stop, file |-> NoSheet]
    /\ screen' = Render(NotPressed(session_state), stop)
    /\ cycles' = cycles + 1
    /\ page' = <<>>
    /\ parsed' = NotParsed
    /\ UNCHANGED <<session_state, log, requests, run>>

\* the download button pressed: the browser receives the sheet that was
\* offered, and the script runs again with "Get Data" not pressed
Download(stop) ==
    /\ run.state = "idle"
    /\ cycles < MaxCycles
    /\ screen.download_offered
    /\ stop \in StopsOfRerun(session_state)
    /\ last' = [action |-> "download", url |-> "", response |-> NoResponse,
                stop |-> stop, file |-> screen.download]
    /\ screen' = Render(NotPressed(session_state), stop)
    /\ cycles' = cycles + 1
    /\ page' = <<>>
    /\ parsed' = NotParsed
    /\ UNCHANGED <<session_state, log, requests, run>>

Next ==
    \/ \E stop \in StopPoints : GetDataNoUrl(stop)
    \/ \E url \in Urls : StartGetData(url)
    \/ DownloadWhileWaiting
    \/ EditWhileWaiting
    \/ \E response \in Responses : FinishGetData(response)
    \/ \E stop \in StopPoints : Rerun(stop)
    \/ \E stop \in StopPoints : Download(stop)

Spec == Init /\ [][Next]_vars

----------------------------------------------------------------------------
(* The extractor alone, on every page of ParsePages *)

InitParse ==
    /\ session_state = [has_data |-> FALSE, data |-> NoFrame]
    /\ log = <<>>
    /\ screen = Render(NotPressed(session_state), "none")
    /\ last = [action |-> "start", url |-> "", response |-> NoResponse,
               stop |-> "none", file |-> NoSheet]
    /\ requests = 0
    /\ cycles = 0
    /\ run = Idle
    /\ page \in ParsePages
    /\ parsed = NotParsed

ParsePage ==
    /\ ~parsed.ran
    /\ LET r == parse_page(page)
       IN  /\ parsed' = [ran |-> TRUE, raised |-> r.raised,
                         properties |-> r.properties, logged |-> r.logged]
           /\ log' = log \o r.logged
    /\ UNCHANGED <<session_state, screen, last, requests, cycles, run, page>>

NextParse == ParsePage

SpecParse == InitParse /\ [][NextParse]_vars

----------------------------------------------------------------------------
(* Vocabulary of the properties *)

\* the listing blocks of the page handed to parse_page, in document order
Listings == find_all_listings(page)

\* a title element whose title attribute is missing
TitleAttrMissing(l) == l.h2.present /\ ~l.h2.has_title

\* a carpet-area entry whose nested value element is missing
SizeValueMissing(l) == l.size.present /\ ~l.size.has_value

Deviates(l) == TitleAttrMissing(l) \/ SizeValueMissing(l)

\* the title string of a listing block that has one ("" without a title element)
TitleOf(l) == IF l.h2.present THEN l.h2.title ELSE <<>>

\* parse_page ran on the page and returned its list
Returned == parsed.ran /\ parsed.raised = "none"

\* position in the returned list of the record of block i, when every block
\* that deviates is skipped and every other block yields one record
RecordPos(i) == Cardinality({j \in 1..i : ~Deviates(Listings[j])})

Field(rec, key) == ValueOf(rec, key)

HasKey(rec, key) == \E j \in 1..Len(rec) : rec[j][1] = key

\* positions (1-based) at which sub occurs in t
Occ(t, sub) == {p \in 1..(Len(t) - Len(sub) + 1) : SubSeq(t, p, p + Len(sub) - 1) = sub}

FirstOcc(t, sub) == CHOOSE p \in Occ(t, sub) : \A q \in Occ(t, sub) : p <= q

\* the rest of t after the occurrence of sub at p
After(t, sub, p) == SubSeq(t, p + Len(sub), Len(t))

FieldNames == {"location", "property_type", "price", "size", "bedrooms", "sold_by"}

SpecOrder == <<"location", "property_type", "price", "size", "bedrooms", "sold_by">>

DictOrder == <<"location", "price", "property_type", "size", "bedrooms", "sold_by">>

\* the last script run was a "Get Data" run with a url, and requests.get
\* has brought a response
Answered ==
    /\ run.state = "idle"
    /\ last.action = "get_data"
    /\ last.url # ""
    /\ ~last.response.raised

\* ... and parse_page returned at least one record in it
Extracted == Answered /\ Returned /\ parsed.properties # <<>>

\* the last run was not stopped by a widget event
RanToEnd == last.stop = "none"

\* the last run got past the "Get Data" block (lines 144-161)
BlockRanToEnd == last.stop \notin {"block", "table"}

----------------------------------------------------------------------------
(* C1 *)

\* C1: whatever deviates in one listing block (a missing title attribute, a
\* missing nested value), parse_page returns normally, logs one line for that
\* block and returns one record for every other block.
C1_SkipsOnlyTheDeviatingBlock ==
    parsed.ran =>
        /\ parsed.raised = "none"
        /\ Len(parsed.properties) = Cardinality({i \in 1..Len(Listings) : ~Deviates(Listings[i])})
        /\ Len(parsed.logged) = Cardinality({i \in 1..Len(Listings) : Deviates(Listings[i])})

----------------------------------------------------------------------------
(* C2 *)

\* C2: a block whose carpet-area entry or its nested value element is absent
\* still yields a record, with size = "Size Not Available" (stated for pages
\* whose title elements all carry their title attribute).
C2_MissingSizeYieldsSentinel ==
    (Returned /\ \A i \in 1..Len(Listings) : ~TitleAttrMissing(Listings[i])) =>
        /\ Len(parsed.properties) = Len(Listings)
        /\ \A i \in 1..Len(Listings) :
              (~Listings[i].size.present \/ ~Listings[i].size.has_value) =>
                  Field(parsed.properties[i], "size") = SizeNA

----------------------------------------------------------------------------
(* C3 *)

\* C3 as stated: the title "2 BHK Flat for Sale in Andheri West" yields
\* bedrooms "2", property_type "Flat Sale" and location "Andheri West".
C3_AndheriFlatSale ==
    Returned =>
        \A i \in 1..Len(Listings) :
            (~Deviates(Listings[i]) /\ TitleOf(Listings[i]) = TitleAndheri) =>
                LET rec == parsed.properties[RecordPos(i)]
                IN  /\ Field(rec, "bedrooms") = Two
                    /\ Field(rec, "property_type") = FlatSale
                    /\ Field(rec, "location") = AndheriWest

\* C3 amended: the title "2 BHK Flat for Sale in Andheri West" yields
\* bedrooms "2", property_type "Flat" (the text between "BHK" and the first
\* "for", trimmed) and location "Andheri West".
C3_AndheriFlat ==
    Returned =>
        \A i \in 1..Len(Listings) :
            (~Deviates(Listings[i]) /\ TitleOf(Listings[i]) = TitleAndheri) =>
                LET rec == parsed.properties[RecordPos(i)]
                IN  /\ Field(rec, "bedrooms") = Two
                    /\ Field(rec, "property_type") = Flat
                    /\ Field(rec, "location") = AndheriWest

C3_Witness ==
    /\ Returned
    /\ \E i \in 1..Len(Listings) :
          /\ ~Deviates(Listings[i])
          /\ TitleOf(Listings[i]) = TitleAndheri
          /\ Field(parsed.properties[RecordPos(i)], "property_type") = Flat

----------------------------------------------------------------------------
(* C4 *)

\* C4 as stated: location is what follows the FIRST " in " of the title, and
\* it is "Location Not Available" exactly when the title holds no " in ".
C4_LocationAfterFirstIn ==
    Returned =>
        \A i \in 1..Len(Listings) :
            ~Deviates(Listings[i]) =>
                LET t == TitleOf(Listings[i])
                    loc == Field(parsed.properties[RecordPos(i)], "location")
                IN  /\ Occ(t, SEP_IN) # {} => loc = After(t, SEP_IN, FirstOcc(t, SEP_IN))
                    /\ loc = LocationNA <=> Occ(t, SEP_IN) = {}

\* C4 amended: location is what follows the LAST " in " separator of the
\* title (separators matched left to right), so it is the end of the title,
\* comes right after a " in " and holds no " in " itself; it is "Location Not
\* Available" whenever the title holds no " in ".
C4_LocationAfterLastIn ==
    Returned =>
        \A i \in 1..Len(Listings) :
            ~Deviates(Listings[i]) =>
                LET t == TitleOf(Listings[i])
                    loc == Field(parsed.properties[RecordPos(i)], "location")
                IN  IF Occ(t, SEP_IN) = {}
                    THEN loc = LocationNA
                    ELSE /\ \E p \in Occ(t, SEP_IN) : loc = After(t, SEP_IN, p)
                         /\ Occ(loc, SEP_IN) = {}

C4_Witness ==
    /\ Returned
    /\ \E i \in 1..Len(Listings) :
          /\ ~Deviates(Listings[i])
          /\ Cardinality(Occ(TitleOf(Listings[i]), SEP_IN)) >= 2
          /\ Field(parsed.properties[RecordPos(i)], "location")
                # After(TitleOf(Listings[i]), SEP_IN, FirstOcc(TitleOf(Listings[i]), SEP_IN))

----------------------------------------------------------------------------
(* C6 *)

\* the characters of the titles, texts and sentinels
Alphabet ==
    {" ", "0", "1", "2", "3", "4", "5", "6", "8", "A", "B", "F", "G", "H",
     "K", "L", "N", "O", "P", "R", "S", "T", "V", "W", "a", "b", "c", "d",
     "e", "f", "h", "i", "l", "m", "n", "o", "p", "q", "r", "s", "t", "u",
     "v", "w", "y", "z"}
    \cup Whitespace

IsString(v) == DOMAIN v = 1..Len(v) /\ \A j \in 1..Len(v) : v[j] \in Alphabet

\* every field of the block's record is there, and is the sentinel of its
\* field where the element or the title it is read from is absent
Populated(l, rec) ==
    /\ Len(rec) = 6
    /\ \A k \in FieldNames : HasKey(rec, k) /\ IsString(Field(rec, k))
    /\ ~l.price.present => Field(rec, "price") = PriceNA
    /\ ~l.size.present => Field(rec, "size") = SizeNA
    /\ ~l.sold_by.present => Field(rec, "sold_by") = SoldByNA
    /\ TitleOf(l) = <<>> =>
          /\ Field(rec, "location") = LocationNA
          /\ Field(rec, "property_type") = PropertyTypeNA
          /\ Field(rec, "bedrooms") = BedroomsNA

\* C6 as stated: every record has all six fields, each a real value or its
\* sentinel, never missing and never an empty placeholder.
C6_NoEmptyField ==
    Returned =>
        \A i \in 1..Len(Listings) :
            ~Deviates(Listings[i]) =>
                LET rec == parsed.properties[RecordPos(i)]
                IN  /\ Populated(Listings[i], rec)
                    /\ \A k \in FieldNames : Field(rec, k) # <<>>

\* C6 amended: every record has all six fields, each a string, never missing
\* and never null, and the sentinel of its field where the element (or the
\* whole title) is absent; a field may be the empty string.
C6_AllSixFieldsAreStrings ==
    Returned =>
        /\ Len(parsed.properties) = Cardinality({i \in 1..Len(Listings) : ~Deviates(Listings[i])})
        /\ \A i \in 1..Len(Listings) :
              ~Deviates(Listings[i]) =>
                  Populated(Listings[i], parsed.properties[RecordPos(i)])

C6_Witness ==
    /\ Returned
    /\ \E i \in 1..Len(Listings) :
          /\ ~Deviates(Listings[i])
          /\ ~Listings[i].price.present
          /\ Field(parsed.properties[RecordPos(i)], "price") = PriceNA
    /\ \E i \in 1..Len(Listings) :
          /\ ~Deviates(Listings[i])
          /\ \E k \in FieldNames : Field(parsed.properties[RecordPos(i)], k) = <<>>

----------------------------------------------------------------------------
(* C5 *)

\* the last run showed the table of the records parse_page returned
TableShown == Extracted /\ screen.table # NoFrame

\* the table on screen holds the records in record order under the column
\* names `order`
TableIs(order) ==
    /\ screen.table.columns = order
    /\ Len(screen.table.rows) = Len(parsed.properties)
    /\ \A r \in 1..Len(parsed.properties) :
          /\ Len(screen.table.rows[r]) = 6
          /\ \A c \in 1..6 :
                screen.table.rows[r][c] = Field(parsed.properties[r], order[c])

\* the sheet offered for download is the "Properties" sheet with a header
\* row of the column names `order`, then the rows of the stored table, and
\* no further column
SheetIs(order) ==
    /\ screen.download.sheet_name = "Properties"
    /\ screen.download.cells[1] = order
    /\ Len(screen.download.cells) = Len(session_state.data.rows) + 1
    /\ \A r \in 1..Len(session_state.data.rows) :
          /\ Len(screen.download.cells[r + 1]) = 6
          /\ screen.download.cells[r + 1] = session_state.data.rows[r]

\* C5 as stated: the table and the "Properties" sheet have the six columns
\* in the order location, property_type, price, size, bedrooms, sold_by, one
\* row per record in record order, no index column.
C5_ColumnsInSpecOrder ==
    /\ TableShown => TableIs(SpecOrder)
    /\ screen.download_offered => SheetIs(SpecOrder)

\* C5 amended: the table handed to the screen and the "Properties" sheet
\* have the six columns in the order location, price, property_type, size,
\* bedrooms, sold_by (the key order of the record dict), one row per record
\* in record order, and the sheet has no index column.
C5_ColumnsInDictOrder ==
    /\ TableShown => TableIs(DictOrder) /\ session_state.data = screen.table
    /\ screen.download_offered => SheetIs(DictOrder)

C5_Witness ==
    /\ TableShown
    /\ screen.download_offered
    /\ Len(parsed.properties) = 2
    /\ screen.download.cells[1] = DictOrder

----------------------------------------------------------------------------
(* C7 *)

\* C7 as stated: after every "Get Data" run whose fetch succeeded (status
\* 200), the slot holds the table of that run's result.
C7_EverySuccessfulFetchOverwrites ==
    (Answered /\ RanToEnd /\ last.response.status_code = 200) =>
        session_state = [has_data |-> TRUE, data |-> pd_DataFrame(parsed.properties)]

\* C7 amended: every "Get Data" run in which parse_page returns at least one
\* record and which gets past the "Get Data" block overwrites the slot
\* wholesale with the table of that run's records; no other run, and no
\* download, changes the slot.
C7_SlotHoldsLastExtractedTable ==
    [][ /\ (Extracted' /\ BlockRanToEnd') =>
              /\ session_state'.has_data
              /\ session_state'.data.columns = DictOrder
              /\ Len(session_state'.data.rows) = Len(parsed'.properties)
              /\ \A r \in 1..Len(parsed'.properties) : \A c \in 1..6 :
                    session_state'.data.rows[r][c] = Field(parsed'.properties[r], DictOrder[c])
        /\ ~(Extracted' /\ BlockRanToEnd') => session_state' = session_state
      ]_vars

\* a later run has extracted two records and the slot holds their table
C7_Witness ==
    /\ Extracted
    /\ BlockRanToEnd
    /\ cycles >= 2
    /\ Len(parsed.properties) = 2
    /\ session_state.has_data
    /\ Len(session_state.data.rows) = 2

----------------------------------------------------------------------------
(* C8 *)

\* C8: whenever the fetch succeeds (status 200) and no record is extracted,
\* the user is shown the "no properties found" message and the run writes no
\* error line (stated for the runs no widget event stops).
C8_EmptyResultMessage ==
    (Answered /\ RanToEnd /\ last.response.status_code = 200 /\ ~Extracted) =>
        /\ screen.message = MsgNoProperties
        /\ parsed.logged = <<>>

----------------------------------------------------------------------------
(* C9 *)

\* the line fetch_html logs for a status
FetchErrorLine(status_code) ==
    [level |-> "ERROR",
     message |-> [prefix |-> "An error occurred: ",
                  what |-> "Failed to fetch page: ",
                  detail |-> str_int(status_code)]]

\* a "Get Data" run answered with a status other than 200: fetch_html
\* returns None without raising, exactly one error line with the status is
\* appended, nothing is extracted or stored, no exception leaves the script,
\* and a run that gets past the "Get Data" block has the fetch-failure
\* message on the screen; answered with 200: the whole body is returned and
\* handed to parse_page
FetchOutcome ==
    IF last'.response.status_code # 200
    THEN /\ fetch_html(last'.response).is_none
         /\ ~fetch_html(last'.response).raised
         /\ log' = Append(log, FetchErrorLine(last'.response.status_code))
         /\ ~parsed'.ran
         /\ session_state' = session_state
         /\ screen'.exception = "none"
         /\ BlockRanToEnd' => screen'.message = MsgFetchFailed
    ELSE /\ ~fetch_html(last'.response).is_none
         /\ fetch_html(last'.response).text = last'.response.text
         /\ page' = last'.response.text
         /\ parsed'.ran <=> last'.response.text # <<>>

\* C9: for every status other than 200 the run logs one error line with the
\* status, extracts and stores nothing and shows the fetch-failure message;
\* for status 200 the whole body is returned (the message is stated for the
\* runs no widget event stops before st.error, line 159; the rest for every
\* answered run).
C9_Non200ShowsFetchFailure ==
    [][ (run.state = "waiting" /\ Answered') => FetchOutcome ]_vars

C9_Witness ==
    /\ Answered
    /\ RanToEnd
    /\ last.response.status_code = 403
    /\ screen.message = MsgFetchFailed
    /\ Len(log) = 1
    /\ log[1].message.detail = <<"4", "0", "3">>
    /\ session_state.has_data

----------------------------------------------------------------------------
(* C10 *)

\* the run ended in NoInput, FetchFailure or EmptyResult
EndedWithoutTable ==
    /\ last.action = "get_data"
    /\ screen.message \in {MsgNoUrl, MsgFetchFailed, MsgNoProperties}

\* C10: a "Get Data" run that ends in NoInput, FetchFailure or EmptyResult
\* leaves the slot unchanged; once a table is stored, every later run offers
\* the download, of the stored table; and without a url no request is made
\* (stated for the runs no widget event stops).
C10_FailedRunsKeepSlotAndDownload ==
    [][ (run'.state = "idle" /\ RanToEnd') =>
          /\ EndedWithoutTable' => session_state' = session_state
          /\ session_state.has_data =>
                /\ session_state'.has_data
                /\ screen'.download_offered
                /\ screen'.download = to_excel(session_state'.data)
          /\ (last'.action = "get_data" /\ last'.url = "") => requests' = requests
      ]_vars

====
